---- MODULE Spec2Model ----
(***************************************************************************)
(* Receipt lifecycle engine of kvitta-api: the receipts collection, the    *)
(* ledger_entries collection and the request handlers that read and write  *)
(* them (app/repositories/receipt_repo.py, app/repositories/ledger_repo.py,*)
(* app/routes/receipts.py, app/routes/ledger.py).                          *)
(*                                                                         *)
(* Every await on the store is one step of a request; the synchronous code *)
(* between two awaits belongs to the step of the await that precedes it    *)
(* (for the first step: to the first await).  One receipt document is      *)
(* modelled; it is created by create_receipt before any request runs.      *)
(*                                                                         *)
(* Floats (Item.quantity, Split.share_quantity) are modelled as integer    *)
(* multiples of 1/QDen; QDen is a power of two so that the modelled values *)
(* and their products with integer cents are exact in binary floating      *)
(* point, and int(x) is the floor of the exact quotient.                   *)
(***************************************************************************)
EXTENDS Integers, Sequences, FiniteSets, TLC

\* ---------------------------------------------------------------- bounds
MaxRequests == 4
NumSlots == 2

\* ------------------------------------------------------------- constants
QDen == 2

Owner == "A"
Users == {"A", "B"}
Slots == 1..NumSlots
RID == "r1"

\* ObjectId(receipt_id) and str(receipt_id): BSON compares the type too.
OID(x) == [kind |-> "oid", val |-> x]
STR(x) == [kind |-> "str", val |-> x]

\* ------------------------------------------------------------- sequences
RECURSIVE SumCents(_)
SumCents(s) == IF s = <<>> THEN 0 ELSE Head(s) + SumCents(Tail(s))

Map(s, Op(_)) == [i \in 1..Len(s) |-> Op(s[i])]

Max(a, b) == IF a >= b THEN a ELSE b
Min(a, b) == IF a <= b THEN a ELSE b

\* int(x) of a non-negative float n/d
IntDiv(n, d) == n \div d

\* --------------------------------------------------- receipt_validation
SplitSum(splits) == SumCents(Map(splits, LAMBDA sp : sp.share_quantity))

validate_items(items) ==
    \A i \in 1..Len(items) :
        /\ items[i].unit_price_cents >= 0
        /\ items[i].quantity > 0
        /\ (items[i].splits # <<>> => SplitSum(items[i].splits) = items[i].quantity)
        /\ \A k \in 1..Len(items[i].splits) : items[i].splits[k].share_quantity > 0

validate_charges(charges) ==
    \A i \in 1..Len(charges) :
        /\ charges[i].unit_price_cents >= 0
        /\ (charges[i].splits # <<>> => SplitSum(charges[i].splits) = QDen)
        /\ \A k \in 1..Len(charges[i].splits) : charges[i].splits[k].share_quantity > 0

validate_payments(payments) ==
    \A i \in 1..Len(payments) : payments[i].amount_paid_cents >= 0

calculate_subtotal(items) ==
    SumCents(Map(items, LAMBDA it : IntDiv(it.unit_price_cents * it.quantity, QDen)))

calculate_charges_total(charges) ==
    SumCents(Map(charges, LAMBDA ch : ch.unit_price_cents))

\* the total without the charges
calculate_total_items(subtotal_cents, charges) == subtotal_cents

calculate_total(subtotal_cents, charges) ==
    subtotal_cents + calculate_charges_total(charges)

\* ------------------------------------------------------ split calculator
\* cents of item it that land on user u: int(item_subtotal * share / split_qty)
ItemLiability(it, u) ==
    IF it.splits = <<>> \/ SplitSum(it.splits) = 0 THEN 0
    ELSE SumCents(Map(it.splits, LAMBDA sp :
            IF sp.user_id = u
            THEN IntDiv(it.unit_price_cents * it.quantity * sp.share_quantity,
                        QDen * SplitSum(it.splits))
            ELSE 0))

\* cents of charge ch that land on user u
ChargeLiability(ch, parts, u) ==
    IF ch.splits # <<>>
    THEN SumCents(Map(ch.splits, LAMBDA sp :
            IF sp.user_id = u
            THEN IntDiv(ch.unit_price_cents * sp.share_quantity, QDen)
            ELSE 0))
    ELSE IF Len(parts) = 0 THEN 0
    ELSE SumCents([i \in 1..Len(parts) |->
            IF parts[i].user_id = u
            THEN (ch.unit_price_cents \div Len(parts))
                 + (IF i - 1 < ch.unit_price_cents % Len(parts) THEN 1 ELSE 0)
            ELSE 0])

PaidTotal(payments) ==
    SumCents(Map(payments, LAMBDA p : p.amount_paid_cents))

PaidBy(payments, u) ==
    SumCents(Map(payments, LAMBDA p : IF p.user_id = u THEN p.amount_paid_cents ELSE 0))

SummaryLiability(parts, items, charges, u) ==
    SumCents(Map(items, LAMBDA it : ItemLiability(it, u)))
    + SumCents(Map(charges, LAMBDA ch : ChargeLiability(ch, parts, u)))

SummaryStatus(net) ==
    IF net < 0 THEN "creditor" ELSE IF net = 0 THEN "settled" ELSE "pending"

_build_settle_summary(parts, items, charges, payments) ==
    Map(parts, LAMBDA p :
        LET net == SummaryLiability(parts, items, charges, p.user_id)
                   - PaidBy(payments, p.user_id)
        IN [user_id |-> p.user_id,
            amount_cents |-> Max(net, 0),
            paid_cents |-> PaidBy(payments, p.user_id),
            net_cents |-> net,
            settled_amount_cents |-> 0,
            is_settled |-> (net = 0),
            settled_at |-> FALSE,
            status |-> SummaryStatus(net)])

\* ------------------------------------------------------------- payloads
ItemAB == [unit_price_cents |-> 4, quantity |-> 2,
           splits |-> <<[user_id |-> "A", share_quantity |-> 1],
                        [user_id |-> "B", share_quantity |-> 1]>>]
ItemA == [unit_price_cents |-> 4, quantity |-> 2,
          splits |-> <<[user_id |-> "A", share_quantity |-> 2]>>]
ChargeEq == [unit_price_cents |-> 2, splits |-> <<>>]
\* 1 cent, quantity 1.0, split 0.5 / 0.5
ItemOdd == [unit_price_cents |-> 1, quantity |-> 2,
            splits |-> <<[user_id |-> "A", share_quantity |-> 1],
                         [user_id |-> "B", share_quantity |-> 1]>>]
\* a negative price, which validate_items rejects
ItemBad == [unit_price_cents |-> -1, quantity |-> 2, splits |-> <<>>]
\* a charge that is B's alone: weight 1.0
ChargeB == [unit_price_cents |-> 2,
            splits |-> <<[user_id |-> "B", share_quantity |-> 2]>>]
\* quantity 1.0 with shares 1.0 and 1.0
ItemOver == [unit_price_cents |-> 4, quantity |-> 2,
             splits |-> <<[user_id |-> "A", share_quantity |-> 2],
                          [user_id |-> "B", share_quantity |-> 2]>>]
\* 1 cent, quantity 0.5, all of it A's: int(0.5) cents
ItemHalf == [unit_price_cents |-> 1, quantity |-> 1,
             splits |-> <<[user_id |-> "A", share_quantity |-> 1]>>]
PayA(c) == [user_id |-> "A", amount_paid_cents |-> c]

\* ReceiptUpdate bodies: a field that is not set is None in the request
Payload(t, hi, i, hc, c, hp, p) ==
    [title |-> t, hasItems |-> hi, items |-> i, hasCharges |-> hc, charges |-> c,
     hasPayments |-> hp, payments |-> p]

Payloads ==
    { Payload("t1", FALSE, <<>>, FALSE, <<>>, FALSE, <<>>),
      Payload("", TRUE, <<ItemAB>>, FALSE, <<>>, TRUE, <<PayA(4)>>),
      Payload("", TRUE, <<ItemA>>, FALSE, <<>>, FALSE, <<>>),
      Payload("", FALSE, <<>>, TRUE, <<ChargeEq>>, TRUE, <<PayA(6)>>),
      Payload("", TRUE, <<ItemOdd>>, FALSE, <<>>, TRUE, <<PayA(1)>>),
      Payload("", TRUE, <<ItemBad>>, FALSE, <<>>, FALSE, <<>>),
      Payload("", FALSE, <<>>, TRUE, <<ChargeB>>, FALSE, <<>>) }

\* one item of quantity 1 with the splits A: 1.0 and B: 1.0, paid by A
ScenarioPatch == Payload("", TRUE, <<ItemOver>>, FALSE, <<>>, TRUE, <<PayA(4)>>)

\* bodies that only the specifications of all handlers send
MorePayloads ==
    { ScenarioPatch,
      Payload("", TRUE, <<ItemHalf>>, FALSE, <<>>, FALSE, <<>>) }

NoPayload == Payload("", FALSE, <<>>, FALSE, <<>>, FALSE, <<>>)

\* ----------------------------------------------------------------- state
VARIABLES
    receipt,         \* the receipts document RID
    ledger,          \* the ledger_entries collection, in insertion order
    req,             \* the request running in each slot
    started,         \* number of requests started so far
    settledOk,       \* per ledger entry: sum of the amounts of the settle calls that returned the entry
    taxTipDeclared   \* whether the Receipt model carries tax_cents and tip_cents

vars == <<receipt, ledger, req, started, settledOk, taxTipDeclared>>

NoSnap == [kind |-> "none"]
NoResult == [kind |-> "none", code |-> "", version |-> 0]
Ok(v) == [kind |-> "ok", code |-> "", version |-> v]
Err(c) == [kind |-> "error", code |-> c, version |-> 0]

Idle == [op |-> "none", pc |-> "idle", caller |-> "", version |-> 0, patch |-> NoPayload,
         user |-> "", entry |-> 0, amount |-> 0, snap |-> NoSnap, result |-> NoResult,
         base |-> 0, attempt |-> 0, wrote |-> FALSE]

\* create_receipt: the document a new receipt starts from
NewReceipt ==
    [owner_id |-> Owner, title |-> "t0", status |-> "draft",
     participants |-> <<[user_id |-> Owner, role |-> "owner"]>>,
     items |-> <<>>, charges |-> <<>>, settle_summary |-> <<>>, payments |-> <<>>,
     subtotal_cents |-> 0, total_cents |-> 0, version |-> 1, is_deleted |-> FALSE]

Init ==
    /\ receipt = NewReceipt
    /\ ledger = <<>>
    /\ req = [s \in Slots |-> Idle]
    /\ started = 0
    /\ settledOk = <<>>
    /\ taxTipDeclared \in BOOLEAN

\* the handler returns: its locals are gone, the response is kept
Finish(s, res) ==
    [req[s] EXCEPT !.pc = "done", !.result = res, !.snap = NoSnap, !.patch = NoPayload]

\* find_one filters of the receipts collection
IsParticipant(doc, u) == \E i \in 1..Len(doc.participants) : doc.participants[i].user_id = u

\* {"_id", "owner_id": user, "is_deleted": False}
OwnerFilter(doc, u) == doc.owner_id = u /\ ~doc.is_deleted

\* get_receipt: {"_id", "is_deleted": False, "$or": [owner, participant]}
VisibleTo(doc, u) == ~doc.is_deleted /\ (doc.owner_id = u \/ IsParticipant(doc, u))

\* ------------------------------------------------------- update_receipt
\* the $set document update_receipt builds from the document it read
BuildUpdates(existing, patch) ==
    LET items == IF patch.hasItems THEN patch.items ELSE existing.items
        charges == IF patch.hasCharges THEN patch.charges ELSE existing.charges
        payments == IF patch.hasPayments THEN patch.payments ELSE existing.payments
        subtotal == IF patch.hasItems THEN calculate_subtotal(patch.items)
                    ELSE existing.subtotal_cents
        total == IF patch.hasItems \/ patch.hasCharges
                 THEN calculate_total(subtotal, charges)
                 ELSE existing.total_cents
    IN [kind |-> "updates",
        title |-> IF patch.title # "" THEN patch.title ELSE existing.title,
        items |-> items, charges |-> charges, payments |-> payments,
        subtotal_cents |-> subtotal, total_cents |-> total,
        settle_summary |-> _build_settle_summary(existing.participants, items,
                                                 charges, payments),
        version |-> existing.version + 1]

\* update without validation of the body
PatchValid_skip(patch) == TRUE

PatchValid(patch) ==
    /\ (patch.hasItems => validate_items(patch.items))
    /\ (patch.hasPayments => validate_payments(patch.payments))
    /\ (patch.hasCharges => validate_charges(patch.charges))

\* the filter of the conditional write: {"_id", "version": update_data.version}
VersionGate_open(doc, v) == TRUE

VersionGate(doc, v) == doc.version = v

\* find_one, the status and version checks, validation and the $set document;
\* the 400 of a validation error names the item or charge that was refused
UpdateBegin(s, caller, v, patch, attempt) ==
    LET r0 == [Idle EXCEPT !.op = "update", !.caller = caller, !.version = v,
                           !.patch = patch, !.base = receipt.version,
                           !.attempt = attempt]
    IN /\ started < MaxRequests
       /\ req' = [req EXCEPT ![s] =
             IF ~OwnerFilter(receipt, caller)
               THEN [r0 EXCEPT !.pc = "done", !.patch = NoPayload, !.result = Err("NotFound")]
             ELSE IF receipt.status # "draft"
               THEN [r0 EXCEPT !.pc = "done", !.patch = NoPayload, !.result = Err("NotDraft")]
             ELSE IF receipt.version # v
               THEN [r0 EXCEPT !.pc = "done", !.patch = NoPayload,
                               !.result = Err("VersionConflict")]
             ELSE IF ~PatchValid(patch)
               THEN [r0 EXCEPT !.pc = "done", !.result = Err("Validation")]
             ELSE [r0 EXCEPT !.pc = "upd_write", !.snap = BuildUpdates(receipt, patch)]]
       /\ started' = started + 1
       /\ UNCHANGED <<receipt, ledger, settledOk, taxTipDeclared>>

\* PATCH /receipts/{id} with any version the receipt has had
UpdateRead(s) ==
    /\ req[s].pc = "idle"
    /\ \E caller \in Users, v \in 1..receipt.version, patch \in Payloads :
          UpdateBegin(s, caller, v, patch, 1)

UpdateReadMore(s) ==
    /\ req[s].pc = "idle"
    /\ \E caller \in Users, v \in 1..receipt.version, patch \in MorePayloads :
          UpdateBegin(s, caller, v, patch, 1)

\* the client that lost with a version conflict re-reads the receipt and
\* sends a patch with the version it has read
UpdateRetry(s) ==
    /\ req[s].pc = "done"
    /\ req[s].op = "update"
    /\ req[s].result = Err("VersionConflict")
    /\ \E patch \in Payloads :
          UpdateBegin(s, req[s].caller, receipt.version, patch, req[s].attempt + 1)

\* find_one_and_update({"_id", "version"}, {"$set": updates})
UpdateWrite(s) ==
    /\ req[s].pc = "upd_write"
    /\ IF VersionGate(receipt, req[s].version)
       THEN /\ receipt' = [receipt EXCEPT
                    !.title = req[s].snap.title,
                    !.items = req[s].snap.items,
                    !.charges = req[s].snap.charges,
                    !.payments = req[s].snap.payments,
                    !.subtotal_cents = req[s].snap.subtotal_cents,
                    !.total_cents = req[s].snap.total_cents,
                    !.settle_summary = req[s].snap.settle_summary,
                    !.version = req[s].snap.version]
            /\ req' = [req EXCEPT ![s] =
                    [Finish(s, Ok(req[s].snap.version)) EXCEPT !.wrote = TRUE]]
       ELSE /\ receipt' = receipt
            /\ req' = [req EXCEPT ![s] = Finish(s, Err("VersionConflict"))]
    /\ UNCHANGED <<ledger, started, settledOk, taxTipDeclared>>

\* ---------------------------------------------- add_member (route, repo)
\* route: get_receipt, owner check, draft check, user lookup by email
AddMemberRoute(s) ==
    /\ req[s].pc = "idle"
    /\ started < MaxRequests
    /\ \E caller \in Users, u \in Users :
        LET r0 == [Idle EXCEPT !.op = "add_member", !.caller = caller, !.user = u,
                               !.base = receipt.version]
        IN req' = [req EXCEPT ![s] =
             IF ~VisibleTo(receipt, caller) \/ receipt.owner_id # caller
               THEN [r0 EXCEPT !.pc = "done", !.result = Err("NotFound")]
             ELSE IF receipt.status # "draft"
               THEN [r0 EXCEPT !.pc = "done", !.result = Err("NotDraft")]
             ELSE [r0 EXCEPT !.pc = "am_check"]]
    /\ started' = started + 1
    /\ UNCHANGED <<receipt, ledger, settledOk, taxTipDeclared>>

\* repo: find_one({"_id", "participants.user_id": user})
AddMemberCheck(s) ==
    /\ req[s].pc = "am_check"
    /\ req' = [req EXCEPT ![s] =
          IF IsParticipant(receipt, req[s].user)
          THEN Finish(s, Err("AlreadyMember"))
          ELSE [req[s] EXCEPT !.pc = "am_push"]]
    /\ UNCHANGED <<receipt, ledger, started, settledOk, taxTipDeclared>>

\* repo: find_one_and_update({"_id"}, {"$push": participants, "$set": updated_at})
AddMemberPush(s) ==
    /\ req[s].pc = "am_push"
    /\ receipt' = [receipt EXCEPT !.participants =
                        Append(@, [user_id |-> req[s].user, role |-> "member"])]
    /\ req' = [req EXCEPT ![s] =
                  [Finish(s, Ok(receipt'.version)) EXCEPT !.wrote = TRUE]]
    /\ UNCHANGED <<ledger, started, settledOk, taxTipDeclared>>

\* ------------------------------------------- remove_member (route, repo)
RemoveMemberRoute(s) ==
    /\ req[s].pc = "idle"
    /\ started < MaxRequests
    /\ \E caller \in Users, u \in Users :
        LET r0 == [Idle EXCEPT !.op = "remove_member", !.caller = caller, !.user = u,
                               !.base = receipt.version]
        IN req' = [req EXCEPT ![s] =
             IF ~VisibleTo(receipt, caller) \/ receipt.owner_id # caller
               THEN [r0 EXCEPT !.pc = "done", !.result = Err("NotFound")]
             ELSE IF receipt.status # "draft"
               THEN [r0 EXCEPT !.pc = "done", !.result = Err("NotDraft")]
             ELSE [r0 EXCEPT !.pc = "rm_check"]]
    /\ started' = started + 1
    /\ UNCHANGED <<receipt, ledger, settledOk, taxTipDeclared>>

HasItemSplit(doc, u) ==
    \E i \in 1..Len(doc.items) :
        \E k \in 1..Len(doc.items[i].splits) : doc.items[i].splits[k].user_id = u

HasPayment(doc, u) ==
    \E i \in 1..Len(doc.payments) : doc.payments[i].user_id = u

\* repo: find_one({"_id"}), the loops over item splits and payments
RemoveMemberCheck(s) ==
    /\ req[s].pc = "rm_check"
    /\ req' = [req EXCEPT ![s] =
          IF HasItemSplit(receipt, req[s].user) \/ HasPayment(receipt, req[s].user)
          THEN Finish(s, Err("MemberHasObligations"))
          ELSE [req[s] EXCEPT !.pc = "rm_pull"]]
    /\ UNCHANGED <<receipt, ledger, started, settledOk, taxTipDeclared>>

\* repo: find_one_and_update({"_id"}, {"$pull": {"participants": {"user_id"}}})
RemoveMemberPull(s) ==
    /\ req[s].pc = "rm_pull"
    /\ receipt' = [receipt EXCEPT !.participants =
          SelectSeq(@, LAMBDA p : p.user_id # req[s].user)]
    /\ req' = [req EXCEPT ![s] =
                  [Finish(s, Ok(receipt'.version)) EXCEPT !.wrote = TRUE]]
    /\ UNCHANGED <<ledger, started, settledOk, taxTipDeclared>>

\* ------------------------------------------------------- ledger builder
TotalSplitQty(items) ==
    SumCents(Map(items, LAMBDA it : SplitSum(it.splits)))

\* _calculate_user_liabilities reads receipt.tax_cents and receipt.tip_cents
\* on every path that gets past its two early returns
ReadsTaxTip(doc) ==
    /\ doc.items # <<>>
    /\ doc.subtotal_cents > 0
    /\ TotalSplitQty(doc.items) # 0

\* the liability of user u; tax_cents and tip_cents are never stored by
\* update_receipt, so where the model declares them they are 0
_calculate_user_liabilities(doc, u) ==
    IF ~ReadsTaxTip(doc) THEN 0
    ELSE SumCents(Map(doc.items, LAMBDA it : ItemLiability(it, u)))

_get_user_payments(doc, u) == PaidBy(doc.payments, u)

_calculate_net_positions(doc, u) ==
    _calculate_user_liabilities(doc, u) - _get_user_payments(doc, u)

NewEntry(d, c, amt) ==
    [receipt_id |-> STR(RID), debtor_id |-> d, creditor_id |-> c,
     amount_cents |-> amt, settled_amount_cents |-> 0, status |-> "pending",
     is_deleted |-> FALSE]

RECURSIVE Match(_, _)
\* the two-cursor loop over the remaining debtors and creditors
Match(debtors, creditors) ==
    IF debtors = <<>> \/ creditors = <<>> THEN <<>>
    ELSE LET d == Head(debtors)
             c == Head(creditors)
             m == Min(d.amt, c.amt)
             ds == IF d.amt - m = 0 THEN Tail(debtors)
                   ELSE <<[d EXCEPT !.amt = d.amt - m]>> \o Tail(debtors)
             cs == IF c.amt - m = 0 THEN Tail(creditors)
                   ELSE <<[c EXCEPT !.amt = c.amt - m]>> \o Tail(creditors)
         IN (IF m > 0 THEN <<NewEntry(d.uid, c.uid, m)>> ELSE <<>>) \o Match(ds, cs)

\* order is the iteration order of the set of user ids (net_positions.items())
_match_debtors_creditors(doc, order) ==
    LET pos == [i \in 1..Len(order) |->
                   [uid |-> order[i], amt |-> _calculate_net_positions(doc, order[i])]]
        debtors == SelectSeq(pos, LAMBDA x : x.amt > 0)
        creditors == Map(SelectSeq(pos, LAMBDA x : x.amt < 0),
                         LAMBDA x : [x EXCEPT !.amt = -x.amt])
    IN Match(debtors, creditors)

UserOrders ==
    {o \in [1..Cardinality(Users) -> Users] : \A u \in Users : \E i \in DOMAIN o : o[i] = u}

\* --------------------------------------------- finalize (route, repo)
\* route: get_receipt and the owner check
FinalizeRoute(s) ==
    /\ req[s].pc = "idle"
    /\ started < MaxRequests
    /\ \E caller \in Users :
        LET r0 == [Idle EXCEPT !.op = "finalize", !.caller = caller]
        IN req' = [req EXCEPT ![s] =
             IF ~VisibleTo(receipt, caller) \/ receipt.owner_id # caller
               THEN [r0 EXCEPT !.pc = "done", !.result = Err("NotFound")]
             ELSE [r0 EXCEPT !.pc = "fin_read"]]
    /\ started' = started + 1
    /\ UNCHANGED <<receipt, ledger, settledOk, taxTipDeclared>>

\* finalize without its payment check
FinalizeRead_nocheck(s) ==
    /\ req[s].pc = "fin_read"
    /\ req' = [req EXCEPT ![s] =
          IF receipt.status # "draft"
            THEN Finish(s, Err("NotDraft"))
          ELSE [req[s] EXCEPT !.pc = "fin_write", !.base = receipt.version]]
    /\ UNCHANGED <<receipt, ledger, started, settledOk, taxTipDeclared>>

\* repo: find_one({"_id"}), the draft check and the payment check
FinalizeRead(s) ==
    /\ req[s].pc = "fin_read"
    /\ req' = [req EXCEPT ![s] =
          IF receipt.status # "draft"
            THEN Finish(s, Err("NotDraft"))
          ELSE IF PaidTotal(receipt.payments) # receipt.total_cents
            THEN Finish(s, Err("PaymentMismatch"))
          ELSE [req[s] EXCEPT !.pc = "fin_write", !.base = receipt.version]]
    /\ UNCHANGED <<receipt, ledger, started, settledOk, taxTipDeclared>>

\* repo: find_one_and_update({"_id"}, {"$set": {"status": "finalized"}}),
\* which returns the document after the update
FinalizeWrite(s) ==
    /\ req[s].pc = "fin_write"
    /\ receipt' = [receipt EXCEPT !.status = "finalized"]
    /\ req' = [req EXCEPT ![s] =
          [req[s] EXCEPT !.pc = "fin_insert", !.wrote = TRUE,
                         !.snap = [kind |-> "doc", doc |-> receipt']]]
    /\ UNCHANGED <<ledger, started, settledOk, taxTipDeclared>>

\* insert_ledger_entries on the returned document: the total check, the
\* liabilities (AttributeError where Receipt has no tax_cents), insert_many
FinalizeInsert(s) ==
    /\ req[s].pc = "fin_insert"
    /\ LET doc == req[s].snap.doc
       IN IF doc.total_cents <= 0
          THEN /\ req' = [req EXCEPT ![s] = Finish(s, Err("EmptyReceipt"))]
               /\ UNCHANGED <<ledger, settledOk>>
          ELSE IF ReadsTaxTip(doc) /\ ~taxTipDeclared
          THEN /\ req' = [req EXCEPT ![s] = Finish(s, Err("Internal"))]
               /\ UNCHANGED <<ledger, settledOk>>
          ELSE \E order \in UserOrders :
               LET entries == _match_debtors_creditors(doc, order)
               IN /\ ledger' = ledger \o entries
                  /\ settledOk' = settledOk \o [i \in 1..Len(entries) |-> 0]
                  /\ req' = [req EXCEPT ![s] =
                        [Finish(s, Ok(doc.version)) EXCEPT !.entry = Len(entries)]]
    /\ UNCHANGED <<receipt, started, taxTipDeclared>>

\* ------------------------------------------- unfinalize (route, repo)
UnfinalizeRoute(s) ==
    /\ req[s].pc = "idle"
    /\ started < MaxRequests
    /\ \E caller \in Users :
        LET r0 == [Idle EXCEPT !.op = "unfinalize", !.caller = caller,
                               !.base = receipt.version]
        IN req' = [req EXCEPT ![s] =
             IF ~VisibleTo(receipt, caller) \/ receipt.owner_id # caller
               THEN [r0 EXCEPT !.pc = "done", !.result = Err("NotFound")]
             ELSE [r0 EXCEPT !.pc = "unf_read"]]
    /\ started' = started + 1
    /\ UNCHANGED <<receipt, ledger, settledOk, taxTipDeclared>>

\* repo: find_one({"_id", owner, not deleted}) and the finalized check
UnfinalizeRead(s) ==
    /\ req[s].pc = "unf_read"
    /\ req' = [req EXCEPT ![s] =
          IF ~OwnerFilter(receipt, req[s].caller)
            THEN Finish(s, Err("NotFound"))
          ELSE IF receipt.status # "finalized"
            THEN Finish(s, Err("NotFinalized"))
          ELSE [req[s] EXCEPT !.pc = "unf_delete"]]
    /\ UNCHANGED <<receipt, ledger, started, settledOk, taxTipDeclared>>

\* the filter of delete_entries_for_receipt: {"receipt_id": ObjectId(receipt_id)}
DeleteFilter(e, rid) == e.receipt_id = OID(rid)

\* update_many(filter, {"$set": {"is_deleted": True}})
delete_entries_for_receipt(entries, rid) ==
    [i \in 1..Len(entries) |->
        IF DeleteFilter(entries[i], rid)
        THEN [entries[i] EXCEPT !.is_deleted = TRUE]
        ELSE entries[i]]

UnfinalizeDelete(s) ==
    /\ req[s].pc = "unf_delete"
    /\ ledger' = delete_entries_for_receipt(ledger, RID)
    /\ req' = [req EXCEPT ![s] = [req[s] EXCEPT !.pc = "unf_write"]]
    /\ UNCHANGED <<receipt, started, settledOk, taxTipDeclared>>

\* find_one_and_update({"_id", owner, not deleted},
\*                     {"$set": {"status": "draft"}, "$inc": {"version": 1}})
UnfinalizeWrite(s) ==
    /\ req[s].pc = "unf_write"
    /\ IF OwnerFilter(receipt, req[s].caller)
       THEN /\ receipt' = [receipt EXCEPT !.status = "draft", !.version = @ + 1]
            /\ req' = [req EXCEPT ![s] =
                    [Finish(s, Ok(receipt'.version)) EXCEPT !.wrote = TRUE]]
       ELSE /\ receipt' = receipt
            /\ req' = [req EXCEPT ![s] = Finish(s, Err("NotFound"))]
    /\ UNCHANGED <<ledger, started, settledOk, taxTipDeclared>>

\* ------------------------------------------------- settle (route, repo)
SettleAmounts == -1..2

\* route: find_one({"_id": entry_id}) and the debtor check; an id past the
\* end of the collection is an id that no entry has
SettleRouteBy(s, callers) ==
    /\ req[s].pc = "idle"
    /\ started < MaxRequests
    /\ \E caller \in callers, e \in 1..(Len(ledger) + 1), amt \in SettleAmounts :
        LET r0 == [Idle EXCEPT !.op = "settle", !.caller = caller, !.entry = e,
                               !.amount = amt]
        IN req' = [req EXCEPT ![s] =
             IF e > Len(ledger)
               THEN [r0 EXCEPT !.pc = "done", !.result = Err("NotFound")]
             ELSE IF ledger[e].debtor_id # caller
               THEN [r0 EXCEPT !.pc = "done", !.result = Err("NotDebtor")]
             ELSE [r0 EXCEPT !.pc = "set_read"]]
    /\ started' = started + 1
    /\ UNCHANGED <<receipt, ledger, settledOk, taxTipDeclared>>

SettleRoute(s) == SettleRouteBy(s, Users)

\* the open amount taken for the whole amount
open_amount_cents_total(e) == e.amount_cents

open_amount_cents(e) == e.amount_cents - e.settled_amount_cents

\* settle_entry: find_one({"_id"}), the amount check, new_settled, new_status
SettleRead(s) ==
    /\ req[s].pc = "set_read"
    /\ LET e == ledger[req[s].entry]
           new_settled == e.settled_amount_cents + req[s].amount
       IN req' = [req EXCEPT ![s] =
             IF req[s].amount < 0 \/ req[s].amount > open_amount_cents(e)
             THEN Finish(s, Err("InvalidSettlementAmount"))
             ELSE [req[s] EXCEPT !.pc = "set_write",
                      !.snap = [kind |-> "settle", new_settled |-> new_settled,
                                new_status |-> IF new_settled = e.amount_cents
                                               THEN "settled"
                                               ELSE "partially_settled"]]]
    /\ UNCHANGED <<receipt, ledger, started, settledOk, taxTipDeclared>>

\* settle_entry: find_one_and_update({"_id"}, {"$set": settled, status});
\* the entry it returns is the route's success
SettleWrite(s) ==
    /\ req[s].pc = "set_write"
    /\ ledger' = [ledger EXCEPT ![req[s].entry] =
          [@ EXCEPT !.settled_amount_cents = req[s].snap.new_settled,
                    !.status = req[s].snap.new_status]]
    /\ settledOk' = [settledOk EXCEPT ![req[s].entry] = @ + req[s].amount]
    /\ req' = [req EXCEPT ![s] =
          [req[s] EXCEPT !.pc = "rec_receipt", !.result = Ok(0), !.wrote = TRUE,
                         !.snap = NoSnap]]
    /\ UNCHANGED <<receipt, started, taxTipDeclared>>

\* ------------------------------------ update_settle_summary_from_ledger
\* find_one({"_id", "is_deleted": False}) and the base summary
ReconcileReceipt(s) ==
    /\ req[s].pc = "rec_receipt"
    /\ req' = [req EXCEPT ![s] =
          IF receipt.is_deleted
          THEN [req[s] EXCEPT !.pc = "done"]
          ELSE [req[s] EXCEPT !.pc = "rec_ledger",
                   !.snap = [kind |-> "base",
                             summary |-> _build_settle_summary(receipt.participants,
                                 receipt.items, receipt.charges, receipt.payments)]]]
    /\ UNCHANGED <<receipt, ledger, started, settledOk, taxTipDeclared>>

\* get_ledger_by_receipt: find({"receipt_id": receipt_id, "is_deleted": False})
get_ledger_by_receipt(entries, rid) ==
    SelectSeq(entries, LAMBDA e : e.receipt_id = STR(rid) /\ ~e.is_deleted)

\* the settled amounts summed per creditor
SettledByDebtor_creditor(entries, u) ==
    SumCents(Map(entries, LAMBDA e :
        IF ~e.is_deleted /\ e.creditor_id = u THEN e.settled_amount_cents ELSE 0))

SettledByDebtor(entries, u) ==
    SumCents(Map(entries, LAMBDA e :
        IF ~e.is_deleted /\ e.debtor_id = u THEN e.settled_amount_cents ELSE 0))

\* the loop that lays the settled amounts over the base summary
OverlaySettled(summary, entries) ==
    Map(summary, LAMBDA x :
        LET settled_amount == Min(x.amount_cents, SettledByDebtor(entries, x.user_id))
            is_settled == settled_amount >= x.amount_cents
        IN [x EXCEPT !.settled_amount_cents = settled_amount,
                     !.is_settled = is_settled,
                     !.status = IF is_settled /\ x.amount_cents > 0 THEN "settled"
                                ELSE IF settled_amount > 0 THEN "partially_settled"
                                ELSE "pending",
                     !.settled_at = is_settled /\ x.amount_cents > 0])

ReconcileLedger(s) ==
    /\ req[s].pc = "rec_ledger"
    /\ req' = [req EXCEPT ![s] =
          [req[s] EXCEPT !.pc = "rec_write",
              !.snap = [kind |-> "summary",
                        summary |-> OverlaySettled(req[s].snap.summary,
                                        get_ledger_by_receipt(ledger, RID))]]]
    /\ UNCHANGED <<receipt, ledger, started, settledOk, taxTipDeclared>>

\* update_one({"_id"}, {"$set": {"settle_summary": base_summary}})
ReconcileWrite(s) ==
    /\ req[s].pc = "rec_write"
    /\ receipt' = [receipt EXCEPT !.settle_summary = req[s].snap.summary]
    /\ req' = [req EXCEPT ![s] = [req[s] EXCEPT !.pc = "done", !.snap = NoSnap]]
    /\ UNCHANGED <<ledger, started, settledOk, taxTipDeclared>>

\* --------------------------------------------------- soft_delete_receipt
\* update_one({"_id", owner, "is_deleted": False}, {"$set": {"is_deleted": True}})
DeleteReceipt(s) ==
    /\ req[s].pc = "idle"
    /\ started < MaxRequests
    /\ \E caller \in Users :
        LET r0 == [Idle EXCEPT !.op = "delete", !.caller = caller, !.pc = "done"]
        IN IF OwnerFilter(receipt, caller)
           THEN /\ receipt' = [receipt EXCEPT !.is_deleted = TRUE]
                /\ req' = [req EXCEPT ![s] =
                       [r0 EXCEPT !.result = Ok(receipt.version), !.wrote = TRUE]]
           ELSE /\ receipt' = receipt
                /\ req' = [req EXCEPT ![s] = [r0 EXCEPT !.result = Err("NotFound")]]
    /\ started' = started + 1
    /\ UNCHANGED <<ledger, settledOk, taxTipDeclared>>

\* ------------------------------------------------------ get_user_balance
\* $match of the first aggregate: the open entries that user u owes on
OwesMatch_creditor(e, u) == e.creditor_id = u /\ ~e.is_deleted /\ e.status # "settled"

OwesMatch(e, u) == e.debtor_id = u /\ ~e.is_deleted /\ e.status # "settled"

\* $match of the second aggregate: the open entries that are owed to user u
IsOwedMatch(e, u) == e.creditor_id = u /\ ~e.is_deleted /\ e.status # "settled"

\* $group: the $sum of amount_cents - settled_amount_cents, 0 for no match
GroupTotal(entries) ==
    SumCents(Map(entries, LAMBDA e : e.amount_cents - e.settled_amount_cents))

\* get_user_balance(user): the aggregate over the entries user owes on
BalanceOwes(s) ==
    /\ req[s].pc = "idle"
    /\ started < MaxRequests
    /\ \E u \in Users :
        req' = [req EXCEPT ![s] =
            [Idle EXCEPT !.op = "balance", !.user = u, !.pc = "bal_owed",
                !.snap = [kind |-> "owes",
                          owes_cents |-> GroupTotal(SelectSeq(ledger,
                                             LAMBDA e : OwesMatch(e, u)))]]]
    /\ started' = started + 1
    /\ UNCHANGED <<receipt, ledger, settledOk, taxTipDeclared>>

\* the aggregate over the entries owed to user, and the dict that is returned
BalanceOwed(s) ==
    /\ req[s].pc = "bal_owed"
    /\ LET owes_cents == req[s].snap.owes_cents
           is_owed_cents == GroupTotal(SelectSeq(ledger,
                                LAMBDA e : IsOwedMatch(e, req[s].user)))
       IN req' = [req EXCEPT ![s] =
             Finish(s, [kind |-> "ok", code |-> "", version |-> 0,
                        owes_cents |-> owes_cents,
                        is_owed_cents |-> is_owed_cents,
                        net_cents |-> is_owed_cents - owes_cents])]
    /\ UNCHANGED <<receipt, ledger, started, settledOk, taxTipDeclared>>

\* the response has been delivered: the slot takes the next request
Return(s) ==
    /\ req[s].pc = "done"
    /\ req' = [req EXCEPT ![s] = Idle]
    /\ UNCHANGED <<receipt, ledger, started, settledOk, taxTipDeclared>>

NextUpdate == \E s \in Slots : UpdateRead(s) \/ UpdateRetry(s) \/ UpdateWrite(s) \/ Return(s)

SpecUpdate == Init /\ [][NextUpdate]_vars

Step(s) ==
    \/ UpdateRead(s) \/ UpdateReadMore(s) \/ UpdateRetry(s) \/ UpdateWrite(s)
    \/ AddMemberRoute(s) \/ AddMemberCheck(s) \/ AddMemberPush(s)
    \/ RemoveMemberRoute(s) \/ RemoveMemberCheck(s) \/ RemoveMemberPull(s)
    \/ FinalizeRoute(s) \/ FinalizeRead(s) \/ FinalizeWrite(s) \/ FinalizeInsert(s)
    \/ UnfinalizeRoute(s) \/ UnfinalizeRead(s) \/ UnfinalizeDelete(s)
    \/ UnfinalizeWrite(s)
    \/ SettleRoute(s) \/ SettleRead(s) \/ SettleWrite(s)
    \/ ReconcileReceipt(s) \/ ReconcileLedger(s) \/ ReconcileWrite(s)
    \/ DeleteReceipt(s)
    \/ BalanceOwes(s) \/ BalanceOwed(s)
    \/ Return(s)

\* parallel request handlers: any request may take its next step
Next == \E s \in Slots : Step(s)

Spec == Init /\ [][Next]_vars

AtRest(r) == r.pc \in {"idle", "done"}

\* one request at a time: a request steps only while every other slot is at rest
NextSeq == \E s \in Slots : (\A t \in Slots \ {s} : AtRest(req[t])) /\ Step(s)

SpecSeq == Init /\ [][NextSeq]_vars

\* A dinner of three: A (owner), B and C; A shares one item with B and one
\* with C and pays both.  TableReceipt is the document after create_receipt,
\* add_member of B and of C, the update with the two items and the payment,
\* and finalize; TableLedger is what finalize has inserted (B owes A, C owes A).
Diners == <<"A", "B", "C">>

ItemAC == [unit_price_cents |-> 4, quantity |-> 2,
           splits |-> <<[user_id |-> "A", share_quantity |-> 1],
                        [user_id |-> "C", share_quantity |-> 1]>>]

TableDraft ==
    [NewReceipt EXCEPT !.participants =
        @ \o <<[user_id |-> "B", role |-> "member"], [user_id |-> "C", role |-> "member"]>>]

TableReceipt ==
    LET updates == BuildUpdates(TableDraft,
                       Payload("", TRUE, <<ItemAB, ItemAC>>, FALSE, <<>>, TRUE, <<PayA(8)>>))
    IN [TableDraft EXCEPT !.items = updates.items, !.payments = updates.payments,
                          !.subtotal_cents = updates.subtotal_cents,
                          !.total_cents = updates.total_cents,
                          !.settle_summary = updates.settle_summary,
                          !.version = updates.version,
                          !.status = "finalized"]

TableLedger == _match_debtors_creditors(TableReceipt, Diners)

InitTable ==
    /\ receipt = TableReceipt
    /\ ledger = TableLedger
    /\ req = [s \in Slots |-> Idle]
    /\ started = 0
    /\ settledOk = [e \in 1..Len(TableLedger) |-> 0]
    /\ taxTipDeclared = TRUE

\* the diners settle their entries in parallel
NextTable ==
    \E s \in Slots :
        \/ SettleRouteBy(s, {Diners[i] : i \in 1..Len(Diners)})
        \/ SettleRead(s) \/ SettleWrite(s)
        \/ ReconcileReceipt(s) \/ ReconcileLedger(s) \/ ReconcileWrite(s)
        \/ Return(s)

SpecTable == InitTable /\ [][NextTable]_vars

\* a single client: its requests run one after the other in slot 1
NextOne == Step(1)

SpecOne == Init /\ [][NextOne]_vars

\* ------------------------------------------------------------------ C1
IsUpdate(r) == r.op = "update"

\* the requests of s and t both carried version v and a body the validator
\* accepts, and both read the receipt while it was stored at version v
Raced(s, t) ==
    /\ s # t
    /\ req[s].result.code # "Validation" /\ req[t].result.code # "Validation"
    /\ IsUpdate(req[s]) /\ IsUpdate(req[t])
    /\ req[s].caller = Owner /\ req[t].caller = Owner
    /\ req[s].version = req[t].version
    /\ req[s].base = req[s].version /\ req[t].base = req[t].version
    /\ req[s].pc = "done" /\ req[t].pc = "done"

C1_RaceOutcome ==
    \A s, t \in Slots :
        Raced(s, t) =>
            /\ ~(req[s].result.kind = "ok" /\ req[t].result.kind = "ok")
            /\ (req[s].result.kind = "ok" =>
                    /\ req[s].result.version = req[s].version + 1
                    /\ req[t].result = Err("VersionConflict")
                    /\ ~req[t].wrote)
            /\ (started = 2 => req[s].result.kind = "ok" \/ req[t].result.kind = "ok")

\* what the conditional write of an update does to the stored receipt
C1_WriteStep ==
    \A s \in Slots :
        (req[s].pc = "upd_write" /\ req'[s].pc = "done") =>
            IF receipt.version = req[s].version
            THEN /\ req'[s].result = Ok(req[s].version + 1)
                 /\ receipt'.version = req[s].version + 1
            ELSE /\ req'[s].result = Err("VersionConflict")
                 /\ receipt' = receipt

\* C1: of two concurrent owner updates that carry the stored version v,
\* exactly one is accepted and returns v+1, the other gets a version conflict
\* and writes nothing; an update is rejected by the conditional write only
\* when the stored version is no longer the one it carries, so the loser's
\* retry with the version it re-read is accepted and yields that version + 1.
C1_VersionGate == []C1_RaceOutcome /\ [][C1_WriteStep]_vars

\* the loser of a race at version 1 has retried at version 2 and got version 3
C1_Witness ==
    \E s, t \in Slots :
        /\ s # t
        /\ IsUpdate(req[s]) /\ req[s].pc = "done" /\ req[s].attempt = 2
        /\ req[s].version = 2 /\ req[s].result = Ok(3)
        /\ IsUpdate(req[t]) /\ req[t].pc = "done" /\ req[t].version = 1
        /\ req[t].base = 1 /\ req[t].result = Ok(2)
        /\ receipt.version = 3

\* ------------------------------------------------------------------ C2
IsOp(r, op) == r.op = op

\* C2: finalize is atomic to observers: a finalize that returned an error has
\* not set the receipt's status to finalized (the receipt is still draft with
\* no ledger entries of that call); a finalize that succeeded has set it.
C2_FinalizeAtomic ==
    \A s \in Slots :
        (IsOp(req[s], "finalize") /\ req[s].pc = "done") =>
            /\ (req[s].result.kind = "error" => ~req[s].wrote)
            /\ (req[s].result.kind = "ok" => req[s].wrote)

\* ------------------------------------------------------------------ C3
\* both finalize calls read the receipt as draft at the same stored version:
\* no unfinalize separates them
RacedFinalize(s, t) ==
    /\ s # t
    /\ IsOp(req[s], "finalize") /\ IsOp(req[t], "finalize")
    /\ req[s].base > 0 /\ req[s].base = req[t].base
    /\ req[s].pc = "done" /\ req[t].pc = "done"

\* C3: of two finalize calls that interleave on the same draft receipt at most
\* one succeeds, the other gets the not-draft error, and the calls leave no
\* two entries for the same debtor and creditor.
C3_OneFinalizeWins ==
    \A s, t \in Slots :
        RacedFinalize(s, t) =>
            /\ ~(req[s].result.kind = "ok" /\ req[t].result.kind = "ok")
            /\ (req[s].result.kind = "ok" => req[t].result = Err("NotDraft"))

\* ------------------------------------------------------------------ C4
Content(doc) ==
    <<doc.participants, doc.items, doc.charges, doc.payments,
      doc.subtotal_cents, doc.total_cents>>

\* C4: the participants, items, charges, payments and totals of a receipt
\* whose status is finalized do not change.
C4_FinalizedFrozen ==
    [][(receipt.status = "finalized" /\ receipt'.status = "finalized")
          => Content(receipt') = Content(receipt)]_vars

\* ------------------------------------------------------------------ C5
Mutations == {"update", "add_member", "remove_member", "finalize", "unfinalize"}

\* the step in which request s commits its write to the receipt
Commits(s) == req[s].op \in Mutations /\ ~req[s].wrote /\ req'[s].wrote

\* C5: every accepted mutation of a receipt (update, add_member,
\* remove_member, finalize, unfinalize) increases the stored version by
\* exactly 1.
C5_VersionPlusOne ==
    [][\A s \in Slots : Commits(s) => receipt'.version = receipt.version + 1]_vars

\* ------------------------------------------------------------------ C6
SettleInFlight(e) ==
    \E s \in Slots : IsOp(req[s], "settle") /\ req[s].entry = e
                     /\ req[s].pc \in {"set_read", "set_write"}

\* C6: once the settle calls on an entry have completed, its
\* settled_amount_cents is the sum of the amounts of the calls that returned
\* success.
C6_NoLostSettle ==
    \A e \in 1..Len(ledger) :
        ~SettleInFlight(e) => ledger[e].settled_amount_cents = settledOk[e]

\* ------------------------------------------------------------------ C7
\* C7: the settled_amount_cents of a ledger entry never decreases from one
\* state to the next.
C7_SettledMonotone ==
    [][\A e \in 1..Len(ledger) :
          ledger'[e].settled_amount_cents >= ledger[e].settled_amount_cents]_vars

\* ------------------------------------------------------------------ C8
EntriesOf(rid) == {e \in 1..Len(ledger) : ledger[e].receipt_id.val = rid}

HasSettlement(rid) ==
    \E e \in EntriesOf(rid) : ~ledger[e].is_deleted /\ ledger[e].settled_amount_cents > 0

UnfinalizeSucceeds(s) ==
    /\ IsOp(req[s], "unfinalize") /\ req[s].pc = "unf_write"
    /\ req'[s].pc = "done" /\ req'[s].result.kind = "ok"

\* C8: unfinalize never succeeds for a receipt that has a ledger entry with
\* settled_amount_cents > 0.
C8_NoUnfinalizeAfterSettle ==
    [][\A s \in Slots : UnfinalizeSucceeds(s) => ~HasSettlement(RID)]_vars

\* ------------------------------------------------------------------ C9
\* C9: a successful unfinalize without settlement progress leaves every
\* ledger entry of the receipt with is_deleted = true, the receipt draft and
\* its version one higher.
C9_UnfinalizeDeletes ==
    [][\A s \in Slots :
          (UnfinalizeSucceeds(s) /\ ~HasSettlement(RID)) =>
              /\ \A e \in EntriesOf(RID) : ledger'[e].is_deleted
              /\ receipt'.status = "draft"
              /\ receipt'.version = receipt.version + 1]_vars

\* ------------------------------------------------------------------ C10
\* net(u) of the split calculator: liability(u) - paid(u)
Net(doc, u) ==
    SummaryLiability(doc.participants, doc.items, doc.charges, u)
    - PaidBy(doc.payments, u)

RECURSIVE SumOver(_, _)
SumOver(S, f) ==
    IF S = {} THEN 0
    ELSE LET x == CHOOSE y \in S : TRUE IN f[x] + SumOver(S \ {x}, f)

LedgerTotal(rid) ==
    SumOver({e \in EntriesOf(rid) : ~ledger[e].is_deleted},
            [e \in 1..Len(ledger) |-> ledger[e].amount_cents])

OwedTotal(doc) == SumOver(Users, [u \in Users |-> Max(Net(doc, u), 0)])

\* C10: for a finalized receipt the amount_cents of its non-deleted ledger
\* entries sum to the sum over users of max(net(u), 0), also after finalize,
\* unfinalize, finalize on the same receipt.  Stated for the states in which
\* no request is running and finalize has inserted its entries, and for
\* receipts without charges, whose liabilities the ledger builder and the
\* split calculator compute alike.
C10_LedgerMatchesNet ==
    (/\ receipt.status = "finalized"
     /\ receipt.charges = <<>>
     /\ taxTipDeclared
     /\ \A s \in Slots : AtRest(req[s]))
        => LedgerTotal(RID) = OwedTotal(receipt)

\* ------------------------------------------------------------------ C11
\* the step in which finalize request s inserts its ledger entries
FinalizeInserts(s) ==
    /\ IsOp(req[s], "finalize") /\ req[s].pc = "fin_insert"
    /\ req'[s].result.kind = "ok"

AllSplit(doc) == \A i \in 1..Len(doc.items) : doc.items[i].splits # <<>>

LiabilityTotal(doc) ==
    SumOver(Users, [u \in Users |-> _calculate_user_liabilities(doc, u)])

NetTotal(doc) ==
    SumOver(Users, [u \in Users |-> _calculate_net_positions(doc, u)])

\* C11: when finalize derives the ledger of a receipt whose items are all
\* split, the liabilities it computes sum to total_cents, the payments sum to
\* total_cents and the net positions sum to zero.
C11_MoneyConserved ==
    [][\A s \in Slots :
          (FinalizeInserts(s) /\ AllSplit(req[s].snap.doc)) =>
              LET doc == req[s].snap.doc
              IN /\ LiabilityTotal(doc) = doc.total_cents
                 /\ PaidTotal(doc.payments) = doc.total_cents
                 /\ NetTotal(doc) = 0]_vars

\* ------------------------------------------------------------------ C12
\* the entries a step has appended to the ledger
Inserted == SubSeq(ledger', Len(ledger) + 1, Len(ledger'))

\* the receipt of the tax-and-tip scenario, in the model's cents: item 4
\* split equally between A and B, a charge of 2 with empty splits, payment A:6
IsChargeScenario(doc) ==
    /\ Len(doc.participants) = 2
    /\ doc.participants[1].user_id = "A" /\ doc.participants[2].user_id = "B"
    /\ doc.items = <<ItemAB>>
    /\ doc.charges = <<ChargeEq>>
    /\ doc.payments = <<PayA(6)>>

\* C12: the net positions finalize derives the ledger from are the net_cents
\* of the split calculator for the same receipt, charges included; in the
\* tax-and-tip scenario finalize inserts exactly one entry, B to A, of B's
\* half of the item plus B's half of the charge.
C12_LedgerIncludesCharges ==
    [][\A s \in Slots :
          FinalizeInserts(s) =>
              LET doc == req[s].snap.doc
                  summary == _build_settle_summary(doc.participants, doc.items,
                                                   doc.charges, doc.payments)
              IN /\ \A i \in 1..Len(summary) :
                        _calculate_net_positions(doc, summary[i].user_id)
                            = summary[i].net_cents
                 /\ (IsChargeScenario(doc) => Inserted = <<NewEntry("B", "A", 3)>>)]_vars

\* ------------------------------------------------------------------ C13
\* the step in which finalize request s evaluates its preconditions
FinalizeChecks(s) ==
    IsOp(req[s], "finalize") /\ req[s].pc = "fin_read" /\ req'[s] # req[s]

BodyAcceptable(patch) ==
    /\ patch.hasItems =>
          \A i \in 1..Len(patch.items) :
              LET it == patch.items[i]
              IN /\ it.unit_price_cents >= 0 /\ it.quantity > 0
                 /\ \A k \in 1..Len(it.splits) : it.splits[k].share_quantity > 0
                 /\ (it.splits # <<>> => SplitSum(it.splits) = it.quantity)
    /\ patch.hasCharges =>
          \A i \in 1..Len(patch.charges) :
              LET ch == patch.charges[i]
              IN /\ ch.unit_price_cents >= 0
                 /\ \A k \in 1..Len(ch.splits) : ch.splits[k].share_quantity > 0
                 /\ (ch.splits # <<>> => SplitSum(ch.splits) = QDen)
    /\ patch.hasPayments =>
          \A i \in 1..Len(patch.payments) : patch.payments[i].amount_paid_cents >= 0

\* the step in which update request s is accepted
UpdateAccepted(s) ==
    /\ IsUpdate(req[s]) /\ req[s].pc = "upd_write"
    /\ req'[s].result.kind = "ok"

\* a step of update request s that ends the request with an error
UpdateRejected(s) ==
    /\ IsUpdate(req'[s]) /\ req'[s] # req[s]
    /\ req'[s].pc = "done" /\ req'[s].result.kind = "error"

\* C14: an update is accepted only on a receipt that is the caller's own,
\* not deleted, draft and stored at the version the patch carries, and only
\* with a body the validator accepts; an update that ends with an error
\* leaves the stored receipt as it was.
C14_UpdatePreconditions ==
    [][\A s \in Slots :
          /\ UpdateAccepted(s) =>
                /\ receipt.owner_id = req[s].caller
                /\ ~receipt.is_deleted
                /\ receipt.status = "draft"
                /\ receipt.version = req[s].version
                /\ BodyAcceptable(req[s].patch)
          /\ UpdateRejected(s) => receipt' = receipt]_vars

\* an update has been accepted, the receipt finalized, and a later update
\* rejected for the status
C14_Witness ==
    \E s \in Slots :
        /\ IsUpdate(req[s]) /\ req[s].pc = "done"
        /\ req[s].result = Err("NotDraft")
        /\ receipt.version = 2 /\ receipt.status = "finalized"
        /\ receipt.items # <<>>

\* ------------------------------------------------------------------ C15
\* C15: a settle of amount a that finds a < 0 or a > amount_cents -
\* settled_amount_cents answers with the invalid-settlement-amount error
\* and leaves the entry as it was; an accepted settle has 0 <= a <= open and
\* adds exactly a to the entry's settled_amount_cents.
C15_SettleAmount ==
    [][\A s \in Slots :
          /\ (/\ IsOp(req[s], "settle") /\ req[s].pc = "set_read"
              /\ req'[s] # req[s]
              /\ (req[s].amount < 0
                    \/ req[s].amount > ledger[req[s].entry].amount_cents
                                        - ledger[req[s].entry].settled_amount_cents))
                => /\ req'[s].result = Err("InvalidSettlementAmount")
                   /\ ledger' = ledger
          /\ (IsOp(req[s], "settle") /\ req[s].pc = "set_write"
                  /\ req'[s].result.kind = "ok")
                => /\ 0 <= req[s].amount
                   /\ req[s].amount <= ledger[req[s].entry].amount_cents
                                        - ledger[req[s].entry].settled_amount_cents
                   /\ ledger'[req[s].entry].settled_amount_cents
                        = ledger[req[s].entry].settled_amount_cents + req[s].amount]_vars

\* an entry of 2 has 1 settled and a settle of 2 on it has been rejected
C15_Witness ==
    \E s \in Slots :
        /\ IsOp(req[s], "settle") /\ req[s].pc = "done"
        /\ req[s].amount = 2
        /\ req[s].result = Err("InvalidSettlementAmount")
        /\ ledger[req[s].entry].amount_cents = 2
        /\ ledger[req[s].entry].settled_amount_cents = 1

\* ------------------------------------------------------------------ C16
\* the status the pair (amount, settled) determines
StatusOf(amount, settled) ==
    IF settled = amount THEN "settled"
    ELSE IF settled > 0 THEN "partially_settled"
    ELSE "pending"

\* C16: the status of every ledger entry is the function of its amount_cents
\* and settled_amount_cents: settled when they are equal, partially_settled
\* when 0 < settled < amount, pending when settled is 0.
C16_StatusFunction ==
    \A e \in 1..Len(ledger) :
        ledger[e].status = StatusOf(ledger[e].amount_cents, ledger[e].settled_amount_cents)

\* ------------------------------------------------------------------ C18
\* the step in which the reconcile that follows the settle of request s
\* writes the settle_summary
ReconcileDone(s) ==
    /\ IsOp(req[s], "settle") /\ req[s].pc = "rec_write"
    /\ req'[s].pc = "done"

\* what debtor u has settled on the non-deleted entries of the receipt
SettledFor(entries, rid, u) ==
    SumOver({e \in 1..Len(entries) :
                /\ entries[e].receipt_id.val = rid
                /\ ~entries[e].is_deleted
                /\ entries[e].debtor_id = u},
            [e \in 1..Len(entries) |-> entries[e].settled_amount_cents])

SummaryReconciled(doc, entries) ==
    /\ \A i \in 1..Len(doc.participants) :
          \E k \in 1..Len(doc.settle_summary) :
              doc.settle_summary[k].user_id = doc.participants[i].user_id
    /\ \A k \in 1..Len(doc.settle_summary) :
          LET x == doc.settle_summary[k]
          IN /\ x.settled_amount_cents
                  = Min(x.amount_cents, SettledFor(entries, RID, x.user_id))
             /\ (0 < x.settled_amount_cents /\ x.settled_amount_cents < x.amount_cents)
                    => x.status = "partially_settled"
             /\ (x.settled_amount_cents = x.amount_cents /\ x.amount_cents > 0)
                    => x.status = "settled"

\* C18: when a settle call and the reconcile that follows it have completed,
\* the settle_summary has, for every participant, settled_amount_cents =
\* min(amount_cents, what that debtor has settled on the receipt's non-deleted
\* entries), status partially_settled when 0 < settled < amount and settled
\* when settled = amount > 0.
C18_ReconcileOverlay ==
    [][\A s \in Slots : ReconcileDone(s) => SummaryReconciled(receipt', ledger')]_vars

\* B has settled 1 of the 2 it owes and the reconcile has written the summary
C18_Witness ==
    \E s \in Slots :
        /\ IsOp(req[s], "settle") /\ req[s].pc = "done" /\ req[s].result.kind = "ok"
        /\ \E k \in 1..Len(receipt.settle_summary) :
              /\ receipt.settle_summary[k].user_id = "B"
              /\ receipt.settle_summary[k].amount_cents = 2
              /\ receipt.settle_summary[k].settled_amount_cents = 1
              /\ receipt.settle_summary[k].status = "partially_settled"

\* ------------------------------------------------------------------ C19
HasChargeSplit(doc, u) ==
    \E i \in 1..Len(doc.charges) :
        \E k \in 1..Len(doc.charges[i].splits) : doc.charges[i].splits[k].user_id = u

HasObligations(doc, u) ==
    HasItemSplit(doc, u) \/ HasChargeSplit(doc, u) \/ HasPayment(doc, u)

\* C19: remove_member of a participant u who appears in an item split, a
\* charge split or a payment is rejected with MemberHasObligations and leaves
\* the participants as they were; a remove_member that goes through removes a
\* user who appears in none of them, and u is no participant afterwards.
C19_MemberObligations ==
    [][\A s \in Slots :
          /\ (/\ IsOp(req[s], "remove_member") /\ req[s].pc = "rm_check"
              /\ req'[s] # req[s]
              /\ IsParticipant(receipt, req[s].user)
              /\ HasObligations(receipt, req[s].user))
                => /\ req'[s].result = Err("MemberHasObligations")
                   /\ receipt'.participants = receipt.participants
          /\ (/\ IsOp(req[s], "remove_member") /\ req[s].pc = "rm_pull"
              /\ IsParticipant(receipt, req[s].user)
              /\ req'[s].result.kind = "ok")
                => /\ ~HasObligations(receipt, req[s].user)
                   /\ ~IsParticipant(receipt', req[s].user)]_vars

\* ------------------------------------------------------------------ C20
\* C20: the owner is a participant with role owner at index 0 of the
\* participants in every reachable state.
C20_OwnerFirst ==
    /\ Len(receipt.participants) >= 1
    /\ receipt.participants[1] = [user_id |-> receipt.owner_id, role |-> "owner"]

\* ------------------------------------------------------------------ C21
\* the step in which the add_member of request s is refused as a duplicate
AddMemberRefused(s) ==
    /\ IsOp(req[s], "add_member") /\ req[s].pc = "am_check"
    /\ req'[s] # req[s]
    /\ IsParticipant(receipt, req[s].user)

\* C21: no user_id occurs twice in the participants of a receipt, also when
\* two add_member calls for the same user interleave.
C21_NoDuplicateParticipants ==
    \A i, k \in 1..Len(receipt.participants) :
        receipt.participants[i].user_id = receipt.participants[k].user_id => i = k

\* C21, second half: add_member for a user who is a participant is rejected
\* and leaves the receipt as it was.
C21_DuplicateRejected ==
    [][\A s \in Slots : AddMemberRefused(s) =>
            /\ req'[s].result = Err("AlreadyMember")
            /\ receipt' = receipt]_vars

\* ------------------------------------------------------------------ C22
\* every user an item split, a charge split or a payment of doc names is a
\* participant of doc
ReferencesAreParticipants(doc) ==
    \A u \in Users : HasObligations(doc, u) => IsParticipant(doc, u)

\* C22: after every accepted update of a receipt every user_id that an item
\* split, a charge split or a payment refers to is a participant of the
\* receipt: an update that refers to a non-participant is rejected.
C22_ReferencesAreParticipants ==
    [][\A s \in Slots :
          (/\ IsOp(req[s], "update") /\ req[s].pc = "upd_write"
           /\ req'[s].result.kind = "ok")
            => ReferencesAreParticipants(receipt')]_vars

\* ------------------------------------------------------------------ C23
\* the open amount of the non-deleted, not fully settled entries in which
\* user u has the given role
OpenAs(entries, role, u) ==
    SumOver({e \in 1..Len(entries) :
                /\ ~entries[e].is_deleted
                /\ entries[e].settled_amount_cents # entries[e].amount_cents
                /\ (IF role = "debtor" THEN entries[e].debtor_id
                                       ELSE entries[e].creditor_id) = u},
            [e \in 1..Len(entries) |->
                entries[e].amount_cents - entries[e].settled_amount_cents])

\* the step in which the balance request of slot s returns
BalanceReturns(s) ==
    /\ IsOp(req[s], "balance") /\ req[s].pc = "bal_owed"
    /\ req'[s].pc = "done"

\* C23: the balance of user u is owes = the sum of amount - settled over the
\* non-deleted, not fully settled entries whose debtor is u, is_owed = the
\* same sum over the entries whose creditor is u, and net = is_owed - owes.
C23_Balance ==
    [][\A s \in Slots : BalanceReturns(s) =>
          /\ req'[s].result.owes_cents = OpenAs(ledger, "debtor", req[s].user)
          /\ req'[s].result.is_owed_cents = OpenAs(ledger, "creditor", req[s].user)
          /\ req'[s].result.net_cents
                = OpenAs(ledger, "creditor", req[s].user)
                  - OpenAs(ledger, "debtor", req[s].user)]_vars

\* the balance of B has been returned while the one entry B owes on is fully
\* settled: it contributes 0
C23_Witness ==
    \E s \in Slots :
        /\ IsOp(req[s], "balance") /\ req[s].pc = "done" /\ req[s].user = "B"
        /\ req[s].result.owes_cents = 0
        /\ \E e \in 1..Len(ledger) :
              /\ ledger[e].debtor_id = "B"
              /\ ledger[e].amount_cents > 0
              /\ ledger[e].settled_amount_cents = ledger[e].amount_cents

\* ------------------------------------------------------------------ C24
\* the owner sends the scenario's update, with the current version, to a
\* draft receipt whose participants are A (owner) and B
ScenarioUpdate(s) ==
    /\ req[s].pc = "idle"
    /\ IsOp(req'[s], "update") /\ req'[s].patch = ScenarioPatch
    /\ req'[s].caller = Owner /\ req'[s].version = receipt.version
    /\ receipt.status = "draft" /\ ~receipt.is_deleted
    /\ receipt.participants = <<[user_id |-> "A", role |-> "owner"],
                                [user_id |-> "B", role |-> "member"]>>

\* C24: on a draft receipt with the participants A (owner) and B, the update
\* with one item of quantity 1 and the splits A: 1.0, B: 1.0 and the payment
\* of the whole price by A is accepted, and the finalize of the receipt that
\* holds this item succeeds with exactly one entry, B owes A half the price,
\* pending.
C24_ScenarioAccepted ==
    [][\A s \in Slots :
          /\ ScenarioUpdate(s) => req'[s].pc = "upd_write"
          /\ (/\ IsOp(req[s], "finalize") /\ req[s].pc = "fin_insert"
              /\ req'[s] # req[s]
              /\ req[s].snap.doc.items = <<ItemOver>>)
                => /\ req'[s].result.kind = "ok"
                   /\ ledger' = ledger \o <<[receipt_id |-> STR(RID),
                          debtor_id |-> "B", creditor_id |-> "A",
                          amount_cents |-> 2, settled_amount_cents |-> 0,
                          status |-> "pending", is_deleted |-> FALSE]>>]_vars

\* ------------------------------------------------------------------ C25
\* what the split calculator puts on all users together
SplitTotal(doc) ==
    SumOver(Users, [u \in Users |->
        SummaryLiability(doc.participants, doc.items, doc.charges, u)])

\* the shares of one item, and of one charge, over all users
ItemShares(it) == SumOver(Users, [u \in Users |-> ItemLiability(it, u)])
ChargeShares(ch, parts) == SumOver(Users, [u \in Users |-> ChargeLiability(ch, parts, u)])

\* C25: for every receipt whose items are all split, the liabilities of the
\* split calculator sum to subtotal_cents plus the charges; the shares of each
\* item sum to the item's subtotal and the shares of each charge with explicit
\* splits sum to its unit_price_cents.
C25_SplitConserves ==
    (\A i \in 1..Len(receipt.items) : receipt.items[i].splits # <<>>) =>
        /\ SplitTotal(receipt)
             = receipt.subtotal_cents + SumCents([i \in 1..Len(receipt.charges) |->
                                            receipt.charges[i].unit_price_cents])
        /\ \A i \in 1..Len(receipt.items) :
              ItemShares(receipt.items[i])
                = (receipt.items[i].unit_price_cents * receipt.items[i].quantity) \div QDen
        /\ \A i \in 1..Len(receipt.charges) :
              receipt.charges[i].splits # <<>> =>
                 ChargeShares(receipt.charges[i], receipt.participants)
                    = receipt.charges[i].unit_price_cents

\* ------------------------------------------------------------------ C26
\* the owner fills and finalizes the receipt from one client; the settle
\* calls on the entries run in parallel in every slot
NextSettle ==
    \/ UpdateRead(1) \/ UpdateWrite(1)
    \/ FinalizeRoute(1) \/ FinalizeRead(1) \/ FinalizeWrite(1) \/ FinalizeInsert(1)
    \/ \E s \in Slots :
          \/ SettleRoute(s) \/ SettleRead(s) \/ SettleWrite(s)
          \/ ReconcileReceipt(s) \/ ReconcileLedger(s) \/ ReconcileWrite(s)
          \/ Return(s)

SpecSettle == Init /\ [][NextSettle]_vars

\* the fields of entry e that settle must leave alone
CreationValues(e) == <<e.receipt_id, e.debtor_id, e.creditor_id, e.amount_cents>>

\* C26: under any sequence and interleaving of settle calls every entry has
\* 0 <= settled_amount_cents <= amount_cents, and its amount_cents, debtor_id
\* and creditor_id keep the values the entry was created with.
C26_SettleBounds ==
    /\ [](\A e \in 1..Len(ledger) :
            /\ 0 <= ledger[e].settled_amount_cents
            /\ ledger[e].settled_amount_cents <= ledger[e].amount_cents)
    /\ [][\A e \in 1..Len(ledger) :
            /\ e <= Len(ledger')
            /\ CreationValues(ledger'[e]) = CreationValues(ledger[e])]_vars

\* two settle calls on one entry have interleaved: together they returned
\* more than the entry's amount, and the entry is settled in full
C26_Witness ==
    \E e \in 1..Len(ledger) :
        /\ settledOk[e] > ledger[e].amount_cents
        /\ ledger[e].settled_amount_cents = ledger[e].amount_cents

\* ------------------------------------------------------------------ C27
\* the step in which an update, add_member or remove_member of request s
\* writes the draft receipt
DraftMutation(s) ==
    /\ req[s].op \in {"update", "add_member", "remove_member"}
    /\ req[s].pc \in {"upd_write", "am_push", "rm_pull"}
    /\ req'[s].result.kind = "ok"
    /\ receipt.status = "draft"

\* C27: after every accepted mutation of a draft receipt (update, add_member,
\* remove_member) the stored settle_summary is the split calculator's output
\* for the receipt's current participants, items, charges and payments, with
\* exactly one entry per current participant.
C27_SummaryCurrent ==
    [][\A s \in Slots : DraftMutation(s) =>
          /\ receipt'.settle_summary
               = _build_settle_summary(receipt'.participants, receipt'.items,
                                       receipt'.charges, receipt'.payments)
          /\ Len(receipt'.settle_summary) = Len(receipt'.participants)
          /\ \A i \in 1..Len(receipt'.participants) :
                receipt'.settle_summary[i].user_id = receipt'.participants[i].user_id]_vars

\* ------------------------------------------------------------------ C28
\* C28: in every stored settle_summary, after an update as after a reconcile,
\* an entry with net_cents < 0 has the status creditor and an entry with
\* net_cents = 0 the status settled; only the entries with net_cents > 0 have
\* one of pending, partially_settled, settled.
C28_SummaryStatus ==
    \A k \in 1..Len(receipt.settle_summary) :
        LET x == receipt.settle_summary[k]
        IN /\ x.net_cents < 0 => x.status = "creditor"
           /\ x.net_cents = 0 => x.status = "settled"
           /\ x.net_cents > 0 => x.status \in {"pending", "partially_settled", "settled"}

\* ------------------------------------------------------------------ C29
\* the sum over the stored items of floor(unit_price_cents * quantity)
ItemsCents(doc) ==
    SumOver(1..Len(doc.items), [i \in 1..Len(doc.items) |->
        (doc.items[i].unit_price_cents * doc.items[i].quantity) \div QDen])

ChargesCents(doc) ==
    SumOver(1..Len(doc.charges), [i \in 1..Len(doc.charges) |->
        doc.charges[i].unit_price_cents])

BothSettled(s, t) ==
    /\ s # t
    /\ IsOp(req[s], "settle") /\ req[s].pc = "done" /\ req[s].result.kind = "ok"
    /\ IsOp(req[t], "settle") /\ req[t].pc = "done" /\ req[t].result.kind = "ok"
    /\ req[s].entry # req[t].entry
    /\ ledger[req[s].entry].receipt_id = ledger[req[t].entry].receipt_id

\* C30: when two settle requests on different ledger entries of one receipt
\* have both completed, the settle_summary reflects both settlements: every
\* debtor's settled_amount_cents is min(amount_cents, the sum of the settled
\* amounts of the debtor's non-deleted entries); no reconcile overwrites the
\* summary with the values of an older read of the ledger.
C30_ReconcileReflectsBoth ==
    \A s, t \in Slots :
        BothSettled(s, t) =>
            \A k \in 1..Len(receipt.settle_summary) :
                receipt.settle_summary[k].settled_amount_cents
                  = Min(receipt.settle_summary[k].amount_cents,
                        SettledFor(ledger, RID, receipt.settle_summary[k].user_id))
====
